---- MODULE Spec2Model ----
(***************************************************************************)
(* State-machine model of node-tg-cc's streaming session orchestration:    *)
(*   MessageStream      src/src/claude/message-stream.ts                   *)
(*   PermissionManager  src/unnamed/part_001 (claude/permission.ts)        *)
(*   SessionManager     src/src/claude/session.ts                          *)
(*   TelegramBot        src/src/bot/bot.ts                                 *)
(* Node runs one handler continuation at a time; every action below is one *)
(* run of code between two suspension points (await / I/O) of the source.  *)
(* The agent engine (SDK query) and Telegram are collaborators: they       *)
(* are modelled as nondeterministic choices of when they answer and how.   *)
(***************************************************************************)
EXTENDS Integers, Sequences, FiniteSets, TLC

\* ---------------------------------------------------------------- bounds
MaxInv == 2      \* invocations (MessageStreams) created in one behaviour
MaxPush == 2     \* items accepted by one MessageStream
MaxReq == 2      \* requestPermission calls in one behaviour
MaxCb == 2       \* button-callback handlers suspended at the same time
MaxArgs == 3     \* words in claudeArgs

Chats == {1, 2}
Tools == {"Bash", "Read"}
\* the session id the engine reports in its i-th run: an opaque value, new each run
TokenNames == <<"s1", "s2", "s3", "s4">>
Token(i) == TokenNames[i]
Tokens == {TokenNames[k] : k \in 1..Len(TokenNames)}
\* the text of the k-th content accepted by a stream
TextNames == <<"m1", "m2", "m3", "m4">>
CallbackActions == {"allow", "always", "deny"}
\* the digits generatePermissionId takes from Math.random()
Suffixes == {"a", "b"}
\* the values of Options['permissionMode'] the code accepts
PermissionModes == {"default", "acceptEdits", "bypassPermissions", "plan"}
\* Telegram user ids (ctx.from.id); NoUser is an update without ctx.from
Users == {1, 2}
NoUser == 0

Null == "null"            \* JS null (sessionId: string | null)
EOS == [text |-> "null", session_id |-> "null"]  \* the null close() hands to a waiting iterator
Blank == ""               \* a stored row whose token was cleared
NoRecord == "norecord"    \* the session store has no row for the chat
NoSession == "nosession"  \* SessionManager.sessions has no entry for the chat
\* splitMessage is not running
NoSplit == [text |-> <<>>, maxLength |-> 1, chunks |-> <<>>, remaining |-> <<>>, pc |-> "idle"]

VARIABLES
  streams,             \* MessageStream objects, one per invocation, by index
  pushed,              \* history: items accepted by push(), per stream
  consumed,            \* history: items yielded to the engine, per stream
  thrown,              \* history: whether the last push() call threw
  inv,                 \* processStream / queryWithStream activations, by index
  activeStreams,       \* TelegramBot.activeStreams: chat -> stream index, 0 = no entry
  permissionMode,      \* SessionManager.permissionMode (configuration, never written)
  onPermissionRequest, \* PermissionManager.onPermissionRequest is set (not null)
  whitelist,           \* TelegramBot.config.whitelist (configuration, never written)
  claudeArgs,          \* SessionManager.claudeArgs (configuration, never written)
  split,               \* the activation of splitMessage: its arguments and its locals
  sessions,            \* SessionManager.sessions: chat -> cached sessionId
  storage,             \* session store: chat -> stored token
  requests,            \* requestPermission calls: the future and the timer of each
  notify,              \* the notify callback (sendPermissionRequest) of each call
  pendingPermissions,  \* PermissionManager.pendingPermissions: the calls whose entry is in the Map
  alwaysAllowedTools,  \* PermissionManager.alwaysAllowedTools
  callbacks,           \* button-callback handlers suspended at editMessageText
  ret,                 \* history: return value of the last resolvePermission call
  grants               \* history: tools a user granted "always" since the chat's last clear

vars == <<streams, pushed, consumed, thrown, inv, activeStreams, permissionMode,
          onPermissionRequest, whitelist, claudeArgs, split, sessions, storage, requests, notify, pendingPermissions,
          alwaysAllowedTools, callbacks, ret, grants>>

streamVars == <<streams, pushed, consumed, thrown>>
\* what no handler writes: the configuration, and the locals of splitMessage
confVars == <<permissionMode, onPermissionRequest, whitelist, claudeArgs, split>>
sessVars == <<sessions, storage>>
brokerVars == <<requests, notify, pendingPermissions, alwaysAllowedTools, callbacks, ret, grants>>

InvIds == 1..Len(inv)
ReqIds == 1..Len(requests)

\* ------------------------------------------------------- MessageStream
\* new MessageStream(): the field initialisers
newMessageStream ==
  [queue |-> <<>>, pendingResolve |-> FALSE, handoff |-> <<>>, closed |-> FALSE,
   sessionId |-> ""]

\* createMessage(text): the item carries the stream's current session id
createMessage(s, text) == [text |-> text, session_id |-> s.sessionId]

setSessionId(s, id) == [s EXCEPT !.sessionId = id]

isClosed(s) == s.closed

\* variant of push: an item handed to the waiting iterator is queued as well
pushAlsoQueues(s, m) ==
  IF s.closed THEN s
  ELSE IF s.pendingResolve
    THEN [s EXCEPT !.pendingResolve = FALSE, !.handoff = <<m>>, !.queue = Append(@, m)]
    ELSE [s EXCEPT !.queue = Append(@, m)]

\* variant of push: the item goes to the front of the queue (unshift for push)
pushLifo(s, m) ==
  IF s.closed THEN s
  ELSE IF s.pendingResolve
    THEN [s EXCEPT !.pendingResolve = FALSE, !.handoff = <<m>>]
    ELSE [s EXCEPT !.queue = <<m>> \o @]

\* variant of pushThrows: a push on a closed stream returns silently
pushThrowsNever(s) == FALSE

\* push(message) throws when the stream is closed
pushThrows(s) == s.closed

\* variant of push: the item is always queued, the waiting slot is not consulted
pushQueuesOnly(s, m) ==
  IF s.closed THEN s ELSE [s EXCEPT !.queue = Append(@, m)]

\* push(message): the stream afterwards. A closed stream throws before it
\* touches a field; otherwise a waiting iterator gets the item through its
\* promise, or the item is queued
push(s, m) ==
  IF s.closed THEN s
  ELSE IF s.pendingResolve
    THEN [s EXCEPT !.pendingResolve = FALSE, !.handoff = <<m>>]
    ELSE [s EXCEPT !.queue = Append(@, m)]

pushText(s, text) == push(s, createMessage(s, text))

\* variant of close: the resolver of the waiting iterator is called but kept
closeKeepsResolver(s) ==
  IF s.pendingResolve
    THEN [s EXCEPT !.closed = TRUE, !.handoff = <<EOS>>]
    ELSE [s EXCEPT !.closed = TRUE]

\* variant of close: only the flag is set, a waiting iterator is not woken
closeNoWake(s) == [s EXCEPT !.closed = TRUE]

\* close(): sets the flag and wakes a waiting iterator with null
close(s) ==
  IF s.pendingResolve
    THEN [s EXCEPT !.closed = TRUE, !.pendingResolve = FALSE, !.handoff = <<EOS>>]
    ELSE [s EXCEPT !.closed = TRUE]

\* ------------------------------------------------------- session store
\* load(chatId, botId) -> token | absent
loadSession(c) == IF storage[c] \in Tokens THEN storage[c] ELSE Null

\* save(chatId, botId, token)
storeSave(c, id) == [storage EXCEPT ![c] = id]

\* clearToken(chatId, botId): keeps the record, blanks the token
storeClearSessionId(c) == [storage EXCEPT ![c] = IF @ = NoRecord THEN NoRecord ELSE Blank]

\* delete(chatId, botId): removes the record
storeDeleteSession(c) == [storage EXCEPT ![c] = NoRecord]

\* ------------------------------------------------------ SessionManager
\* getSession(chatId): the cached session id, loaded from the store on a miss
getSession(c) == IF sessions[c] = NoSession THEN loadSession(c) ELSE sessions[c]

\* variant of saveSession: the cached entry is updated, the store is not written
saveSessionCacheOnly(c, id) ==
  /\ sessions' = [sessions EXCEPT ![c] = IF @ = NoSession THEN NoSession ELSE id]
  /\ UNCHANGED storage

\* saveSession(chatId, sessionId): the cached entry (if any) and the store
saveSession(c, id) ==
  /\ sessions' = [sessions EXCEPT ![c] = IF @ = NoSession THEN NoSession ELSE id]
  /\ storage' = storeSave(c, id)

\* parseClaudeOptions(): the permissionMode it returns, Null when it sets none.
\* The loop reads the array from index i; --model and --max-turns take the next
\* element as their value when it is there, --permission-mode takes it and
\* keeps it when it names a mode
RECURSIVE parsedPermissionMode(_, _, _)
parsedPermissionMode(args, i, mode) ==
  IF i > Len(args) THEN mode
  ELSE IF args[i] \in {"--model", "--max-turns"} /\ i + 1 <= Len(args)
    THEN parsedPermissionMode(args, i + 2, mode)
  ELSE IF args[i] = "--permission-mode" /\ i + 1 <= Len(args)
    THEN parsedPermissionMode(args, i + 2,
                              IF args[i + 1] \in PermissionModes THEN args[i + 1] ELSE mode)
  ELSE parsedPermissionMode(args, i + 1, mode)

parseClaudeOptions == parsedPermissionMode(claudeArgs, 1, Null)

\* options.permissionMode handed to query(): this.permissionMode, overwritten by
\* the spread of parseClaudeOptions()
optionsPermissionMode ==
  IF parseClaudeOptions # Null THEN parseClaudeOptions ELSE permissionMode

\* the canUseTool hook is installed for these modes only
HookInstalled == permissionMode \in {"default", "acceptEdits"}

\* --------------------------------------------------- PermissionManager
isToolAlwaysAllowed(c, t) == t \in alwaysAllowedTools[c]

\* variant of setToolAlwaysAllowed: a chat's first Set is created but never
\* stored in the map
setToolAlwaysAllowedDropsNewSet(c, t) ==
  IF alwaysAllowedTools[c] = {}
    THEN alwaysAllowedTools
    ELSE [alwaysAllowedTools EXCEPT ![c] = @ \cup {t}]

setToolAlwaysAllowed(c, t) == [alwaysAllowedTools EXCEPT ![c] = @ \cup {t}]

\* variant of clearAlwaysAllowed: the whole map is emptied
clearAlwaysAllowedEveryChat(c) == [b \in Chats |-> {}]

clearAlwaysAllowed(c) == [alwaysAllowedTools EXCEPT ![c] = {}]

\* pending.resolve(response): a promise keeps the first value it is resolved with
settle(q, v) ==
  [q EXCEPT !.result = IF @ = "pending" THEN v ELSE @, !.resolveCalls = @ + 1]

\* the response built by the button handler for each action
Response(a) ==
  [allowed |-> a \in {"allow", "always"}, alwaysAllow |-> a = "always"]

Denied == [allowed |-> FALSE, alwaysAllow |-> FALSE]

Value(response) == IF response.allowed THEN "allow" ELSE "deny"

\* generatePermissionId(): `perm_${Date.now()}_${7 base-36 digits of
\* Math.random()}`; the string is determined by the millisecond and the digits
generatePermissionId(ms, rnd) == <<ms, rnd>>

\* a call that returned before generatePermissionId has no id
NoId == <<0, "">>

\* Date.now() at the latest generatePermissionId call (0 before the first)
LastMs ==
  IF requests = <<>> THEN 0
  ELSE CHOOSE m \in {requests[k].id[1] : k \in ReqIds} :
         \A k \in ReqIds : requests[k].id[1] <= m

\* Date.now() does not go back: the same millisecond as the latest call or a later one
Clock == {IF LastMs = 0 THEN 1 ELSE LastMs, LastMs + 1}

\* pendingPermissions.get(id string of call id): the call whose entry is stored
\* under that string, 0 when there is none. The Map holds one entry per key
entryOf(id) ==
  IF \E k \in pendingPermissions : requests[k].id = requests[id].id
    THEN CHOOSE k \in pendingPermissions : requests[k].id = requests[id].id
    ELSE 0

\* variant of resolvePermission: the entry is not deleted
resolvePermissionKeepsEntry(id, response) ==
  IF entryOf(id) = 0
    THEN /\ ret' = "false"
         /\ UNCHANGED <<requests, pendingPermissions, alwaysAllowedTools>>
    ELSE /\ requests' = [requests EXCEPT
                           ![entryOf(id)] = settle([@ EXCEPT !.timer = "cleared"], Value(response))]
         /\ UNCHANGED pendingPermissions
         /\ alwaysAllowedTools' =
              IF response.allowed /\ response.alwaysAllow
                THEN setToolAlwaysAllowed(requests[entryOf(id)].chatId, requests[entryOf(id)].toolName)
                ELSE alwaysAllowedTools
         /\ ret' = "true"

\* variant of resolvePermission: the timer is not cleared
resolvePermissionKeepsTimer(id, response) ==
  IF entryOf(id) = 0
    THEN /\ ret' = "false"
         /\ UNCHANGED <<requests, pendingPermissions, alwaysAllowedTools>>
    ELSE /\ requests' = [requests EXCEPT ![entryOf(id)] = settle(@, Value(response))]
         /\ pendingPermissions' = pendingPermissions \ {entryOf(id)}
         /\ alwaysAllowedTools' =
              IF response.allowed /\ response.alwaysAllow
                THEN setToolAlwaysAllowed(requests[entryOf(id)].chatId, requests[entryOf(id)].toolName)
                ELSE alwaysAllowedTools
         /\ ret' = "true"

\* variant of resolvePermission: an always-allow is remembered before the
\* pending check
resolvePermissionRemembersFirst(id, response) ==
  /\ alwaysAllowedTools' =
       IF response.allowed /\ response.alwaysAllow
         THEN setToolAlwaysAllowed(requests[id].chatId, requests[id].toolName)
         ELSE alwaysAllowedTools
  /\ IF entryOf(id) = 0
       THEN /\ ret' = "false"
            /\ UNCHANGED <<requests, pendingPermissions>>
       ELSE /\ requests' = [requests EXCEPT
                              ![entryOf(id)] = settle([@ EXCEPT !.timer = "cleared"], Value(response))]
            /\ pendingPermissions' = pendingPermissions \ {entryOf(id)}
            /\ ret' = "true"

\* resolvePermission(permissionId, response): check, clearTimeout, delete,
\* remember an always-allow, resolve; ret is the returned boolean
resolvePermission(id, response) ==
  IF entryOf(id) = 0
    THEN /\ ret' = "false"
         /\ UNCHANGED <<requests, pendingPermissions, alwaysAllowedTools>>
    ELSE /\ requests' = [requests EXCEPT
                           ![entryOf(id)] = settle([@ EXCEPT !.timer = "cleared"], Value(response))]
         /\ pendingPermissions' = pendingPermissions \ {entryOf(id)}
         /\ alwaysAllowedTools' =
              IF response.allowed /\ response.alwaysAllow
                THEN setToolAlwaysAllowed(requests[entryOf(id)].chatId, requests[entryOf(id)].toolName)
                ELSE alwaysAllowedTools
         /\ ret' = "true"

\* variant of handleTimeout: the entry is deleted but its future is not resolved
handleTimeoutDeletesOnly(id) ==
  /\ id \in ReqIds
  /\ requests[id].timer = "armed"
  /\ requests' = [requests EXCEPT ![id].timer = "fired"]
  /\ pendingPermissions' = pendingPermissions \ {entryOf(id)}
  /\ UNCHANGED <<streamVars, inv, activeStreams, confVars, sessVars, notify,
                 alwaysAllowedTools, callbacks, ret, grants>>

\* handleTimeout(permissionId): the timer callback of call id; it looks the
\* entry up under the id string of that call
handleTimeout(id) ==
  /\ id \in ReqIds
  /\ requests[id].timer = "armed"
  /\ IF entryOf(id) = 0
       THEN /\ requests' = [requests EXCEPT ![id].timer = "fired"]
            /\ UNCHANGED pendingPermissions
       ELSE /\ pendingPermissions' = pendingPermissions \ {entryOf(id)}
            /\ requests' = [requests EXCEPT ![id].timer = "fired",
                                            ![entryOf(id)] = settle(@, "deny")]
  /\ UNCHANGED <<streamVars, inv, activeStreams, confVars, sessVars, notify,
                 alwaysAllowedTools, callbacks, ret, grants>>

\* cancelPendingForChat(chatId): the requests and the pending set afterwards
cancelledRequests(c) ==
  [r \in ReqIds |->
     IF r \in pendingPermissions /\ requests[r].chatId = c
       THEN settle([requests[r] EXCEPT !.timer = "cleared"], "deny")
       ELSE requests[r]]

\* variant of cancelledPending: only the first entry of the chat is deleted
\* (the loop stops after one match)
cancelledPendingFirstOnly(c) ==
  LET mine == {r \in pendingPermissions : requests[r].chatId = c} IN
    IF mine = {} THEN pendingPermissions
    ELSE pendingPermissions \ {CHOOSE r \in mine : \A q \in mine : r <= q}

cancelledPending(c) == {r \in pendingPermissions : requests[r].chatId # c}

cancelPendingForChat(c) ==
  /\ requests' = cancelledRequests(c)
  /\ pendingPermissions' = cancelledPending(c)

\* variant of requestPermission: without a notify callback the request is
\* denied only after its entry was stored and its timer armed
requestPermissionStoresFirst(c, t, id) ==
  IF isToolAlwaysAllowed(c, t)
    THEN /\ requests' = Append(requests,
              [chatId |-> c, toolName |-> t, stored |-> FALSE, timer |-> "none",
               result |-> "allow", resolveCalls |-> 0, id |-> NoId])
         /\ notify' = Append(notify, "none")
         /\ UNCHANGED pendingPermissions
    ELSE /\ requests' = Append(requests,
              [chatId |-> c, toolName |-> t, stored |-> TRUE, timer |-> "armed",
               result |-> IF onPermissionRequest THEN "pending" ELSE "deny",
               resolveCalls |-> 0, id |-> id])
         /\ notify' = Append(notify, IF onPermissionRequest THEN "sending" ELSE "none")
         /\ pendingPermissions' =
              {k \in pendingPermissions : requests[k].id # id} \cup {Len(requests) + 1}

\* requestPermission(chatId, toolName, toolInput): the always-allowed fast path
\* returns at once, and so does the denial when no notify callback is set;
\* otherwise a timer is armed, the entry stored under the generated id
\* (Map.set replaces an entry already stored under that key) and the notify
\* callback started
requestPermission(c, t, id) ==
  IF isToolAlwaysAllowed(c, t)
    THEN /\ requests' = Append(requests,
              [chatId |-> c, toolName |-> t, stored |-> FALSE, timer |-> "none",
               result |-> "allow", resolveCalls |-> 0, id |-> NoId])
         /\ notify' = Append(notify, "none")
         /\ UNCHANGED pendingPermissions
  ELSE IF ~onPermissionRequest
    THEN /\ requests' = Append(requests,
              [chatId |-> c, toolName |-> t, stored |-> FALSE, timer |-> "none",
               result |-> "deny", resolveCalls |-> 0, id |-> NoId])
         /\ notify' = Append(notify, "none")
         /\ UNCHANGED pendingPermissions
    ELSE /\ requests' = Append(requests,
              [chatId |-> c, toolName |-> t, stored |-> TRUE, timer |-> "armed",
               result |-> "pending", resolveCalls |-> 0, id |-> id])
         /\ notify' = Append(notify, "sending")
         /\ pendingPermissions' =
              {k \in pendingPermissions : requests[k].id # id} \cup {Len(requests) + 1}

\* sendPermissionRequest delivered the prompt
NotifyDone(id) ==
  /\ id \in ReqIds
  /\ notify[id] = "sending"
  /\ notify' = [notify EXCEPT ![id] = "sent"]
  /\ UNCHANGED <<streamVars, inv, activeStreams, confVars, sessVars, requests,
                 pendingPermissions, alwaysAllowedTools, callbacks, ret, grants>>

\* variant of NotifyFail: the rejection of the notify callback is not handled
NotifyFailUnhandled(id) ==
  /\ id \in ReqIds
  /\ notify[id] = "sending"
  /\ notify' = [notify EXCEPT ![id] = "failed"]
  /\ UNCHANGED <<streamVars, inv, activeStreams, confVars, sessVars, callbacks,
                 grants, requests, pendingPermissions, alwaysAllowedTools, ret>>

\* sendPermissionRequest rejected: the .catch of requestPermission denies the request
NotifyFail(id) ==
  /\ id \in ReqIds
  /\ notify[id] = "sending"
  /\ notify' = [notify EXCEPT ![id] = "failed"]
  /\ resolvePermission(id, Denied)
  /\ UNCHANGED <<streamVars, inv, activeStreams, confVars, sessVars, callbacks,
                 grants>>

\* the perm:<action>:<id> button handler up to its first await, for a press
\* by user u in chat c: an id that is not pending is answered "expired" and the
\* handler returns. ctx.from and ctx.chat are logged, nothing else
CallbackBeginFrom(u, c, id, a) ==
  /\ id \in ReqIds
  /\ requests[id].stored
  /\ IF entryOf(id) # 0
       THEN /\ Cardinality(callbacks) < MaxCb
            /\ callbacks' = callbacks \cup {[id |-> id, action |-> a, from |-> u, chat |-> c]}
       ELSE UNCHANGED callbacks
  /\ UNCHANGED <<streamVars, inv, activeStreams, confVars, sessVars, requests,
                 notify, pendingPermissions, alwaysAllowedTools, ret, grants>>

\* a press by a user of the chat the prompt was sent to
CallbackBegin(id, a) ==
  /\ id \in ReqIds
  /\ CallbackBeginFrom(1, requests[id].chatId, id, a)

\* the handler resumes after editMessageText and calls resolvePermission
CallbackResolve(cb) ==
  /\ cb \in callbacks
  /\ callbacks' = callbacks \ {cb}
  /\ resolvePermission(cb.id, Response(cb.action))
  /\ grants' = IF entryOf(cb.id) # 0 /\ cb.action = "always"
                THEN [grants EXCEPT ![requests[entryOf(cb.id)].chatId] =
                        @ \cup {requests[entryOf(cb.id)].toolName}]
                ELSE grants
  /\ UNCHANGED <<streamVars, inv, activeStreams, confVars, sessVars, notify>>

\* variant of ActiveOpen: the entry is enough, isClosed() is not asked
ActiveOpenIgnoresClosed(c) == activeStreams[c] # 0

\* ---------------------------------------------------------- TelegramBot
\* the chat's activeStreams entry exists and its stream is open
ActiveOpen(c) == activeStreams[c] # 0 /\ ~isClosed(streams[activeStreams[c]])

\* startNewProcessing(ctx, text): a new stream seeded with the text, processStream
\* started (it runs up to its first await), the entry stored
startNewProcessing(c, text) ==
  /\ Len(inv) < MaxInv
  /\ streams' = Append(streams, pushText(newMessageStream, text))
  /\ pushed' = Append(pushed, <<createMessage(newMessageStream, text)>>)
  /\ consumed' = Append(consumed, <<>>)
  /\ thrown' = pushThrows(newMessageStream)
  /\ inv' = Append(inv, [chat |-> c, pc |-> "typing", cons |-> "idle",
                         newSessionId |-> Null, failed |-> FALSE])
  /\ activeStreams' = [activeStreams EXCEPT ![c] = Len(inv) + 1]

\* variant of injectMessage: the branch starts a new processing instead
injectMessageRestarts(c, text) == startNewProcessing(c, text)

\* variant of injectMessage: a message for a chat with a pending permission
\* request is turned away
injectMessageUnlessPending(c, text) ==
  LET a == activeStreams[c] IN
    /\ Len(pushed[a]) < MaxPush
    /\ IF \E r \in pendingPermissions : requests[r].chatId = c
         THEN /\ thrown' = TRUE
              /\ UNCHANGED <<streams, pushed>>
         ELSE /\ streams' = [streams EXCEPT ![a] = pushText(@, text)]
              /\ pushed' = [pushed EXCEPT ![a] = Append(@, createMessage(streams[a], text))]
              /\ thrown' = FALSE
    /\ UNCHANGED <<consumed, inv, activeStreams>>

\* the inject branch of injectOrStartMessage: pushText inside try/catch
injectMessage(c, text) ==
  LET a == activeStreams[c] IN
    /\ Len(pushed[a]) < MaxPush
    /\ streams' = [streams EXCEPT ![a] = pushText(@, text)]
    /\ pushed' = IF pushThrows(streams[a])
                    THEN pushed
                    ELSE [pushed EXCEPT ![a] = Append(@, createMessage(streams[a], text))]
    /\ thrown' = pushThrows(streams[a])
    /\ UNCHANGED <<consumed, inv, activeStreams>>

\* a text is named by its arrival number in its stream, so that the items of
\* one stream are all different
NextText(c) ==
  IF ActiveOpen(c) THEN TextNames[Len(pushed[activeStreams[c]]) + 1] ELSE TextNames[1]

\* injectOrStartMessage(ctx, text) for an allowed user of chat c
injectOrStartMessage(c, text) ==
  /\ IF ActiveOpen(c) THEN injectMessage(c, text) ELSE startNewProcessing(c, text)
  /\ UNCHANGED <<confVars, sessVars, brokerVars>>

\* the boolean cancelProcessing(chatId) returns
cancelProcessingReturns(c) == ActiveOpen(c)

\* variant of cancelProcessing: a hard cancel, the entry is deleted as well
cancelProcessingRemovesEntry(c) ==
  /\ IF ActiveOpen(c)
       THEN /\ streams' = [streams EXCEPT ![activeStreams[c]] = close(@)]
            /\ activeStreams' = [activeStreams EXCEPT ![c] = 0]
       ELSE UNCHANGED <<streams, activeStreams>>
  /\ UNCHANGED <<pushed, consumed, thrown, inv, confVars, sessVars, brokerVars>>

\* variant of isUserAllowed: the whitelist is not consulted
isUserAllowedAnyone(u) == TRUE

\* isUserAllowed(userId): an empty whitelist allows every user
isUserAllowed(u) == IF whitelist = {} THEN TRUE ELSE u \in whitelist

\* a text message (or a downloaded file) of user u in chat c reaches
\* injectOrStartMessage, which turns away a sender that is missing or not allowed
\* before it looks at activeStreams
onMessage(u, c, text) ==
  IF u = NoUser \/ ~isUserAllowed(u)
    THEN UNCHANGED vars
    ELSE injectOrStartMessage(c, text)

\* cancelProcessing(chatId): closes the open active stream, nothing else
cancelProcessing(c) ==
  /\ IF ActiveOpen(c)
       THEN streams' = [streams EXCEPT ![activeStreams[c]] = close(@)]
       ELSE UNCHANGED streams
  /\ UNCHANGED <<pushed, consumed, thrown, inv, activeStreams, confVars, sessVars,
                 brokerVars>>

\* what is left of a stream after close() once nothing references it any more
Released == close(newMessageStream)

\* the callback of processingPromise.finally, run when processStream settles:
\* stream.close() and activeStreams.delete(chatId). The stream and the activation
\* are unreachable afterwards, so their fields and histories are dropped
Finally(i) ==
  /\ streams' = [streams EXCEPT ![i] = Released]
  /\ pushed' = [pushed EXCEPT ![i] = <<>>]
  /\ consumed' = [consumed EXCEPT ![i] = <<>>]
  /\ UNCHANGED thrown
  /\ activeStreams' = [activeStreams EXCEPT ![inv[i].chat] = 0]
  /\ inv' = [inv EXCEPT ![i] = [chat |-> @.chat, pc |-> "done", cons |-> "gone",
                                newSessionId |-> Null, failed |-> FALSE]]

\* processStream: sendChatAction and the progress message went through;
\* queryWithStream starts: getSession, setSessionId when resuming, query()
TypingOk(i) ==
  /\ i \in InvIds
  /\ inv[i].pc = "typing"
  /\ LET c == inv[i].chat
         sid == getSession(c) IN
       /\ sessions' = [sessions EXCEPT ![c] = sid]
       /\ streams' = IF sid \in Tokens
                       THEN [streams EXCEPT ![i] = setSessionId(@, sid)]
                       ELSE streams
  /\ inv' = [inv EXCEPT ![i].pc = "engine"]
  /\ UNCHANGED <<pushed, consumed, thrown, activeStreams, confVars, storage, brokerVars>>

\* variant of TypingFail: the cleanup is chained with then(), so a rejection
\* of processStream skips it
TypingFailSkipsCleanup(i) ==
  /\ i \in InvIds
  /\ inv[i].pc = "typing"
  /\ inv' = [inv EXCEPT ![i].pc = "done", ![i].cons = "gone"]
  /\ UNCHANGED <<streamVars, activeStreams, confVars, sessVars, brokerVars>>

\* processStream: the first sendChatAction (outside the try) rejects
TypingFail(i) ==
  /\ i \in InvIds
  /\ inv[i].pc = "typing"
  /\ Finally(i)
  /\ UNCHANGED <<confVars, sessVars, brokerVars>>

\* the engine asks the stream's iterator for the next item
EngineNext(i) ==
  /\ i \in InvIds
  /\ inv[i].pc = "engine"
  /\ inv[i].cons = "idle"
  /\ LET s == streams[i] IN
       IF s.queue # <<>>
         THEN /\ streams' = [streams EXCEPT ![i].queue = Tail(@)]
              /\ consumed' = [consumed EXCEPT ![i] = Append(@, Head(s.queue))]
              /\ UNCHANGED inv
         ELSE IF s.closed
           THEN /\ inv' = [inv EXCEPT ![i].cons = "ended"]
                /\ UNCHANGED <<streams, consumed>>
           ELSE /\ streams' = [streams EXCEPT ![i].pendingResolve = TRUE]
                /\ inv' = [inv EXCEPT ![i].cons = "waiting"]
                /\ UNCHANGED consumed
  /\ UNCHANGED <<pushed, thrown, activeStreams, confVars, sessVars, brokerVars>>

\* the iterator resumes from its await with the value push() or close() gave it
EngineResume(i) ==
  /\ i \in InvIds
  /\ inv[i].pc = "engine"
  /\ inv[i].cons = "waiting"
  /\ streams[i].handoff # <<>>
  /\ LET v == streams[i].handoff[1] IN
       /\ streams' = [streams EXCEPT ![i].handoff = <<>>]
       /\ IF v = EOS
            THEN /\ inv' = [inv EXCEPT ![i].cons = "ended"]
                 /\ UNCHANGED consumed
            ELSE /\ inv' = [inv EXCEPT ![i].cons = "idle"]
                 /\ consumed' = [consumed EXCEPT ![i] = Append(@, v)]
  /\ UNCHANGED <<pushed, thrown, activeStreams, confVars, sessVars, brokerVars>>

\* variant of EngineSessionEvent: the session id is kept for saving but the
\* stream is not stamped
EngineSessionEventNoStamp(i) ==
  /\ i \in InvIds
  /\ inv[i].pc = "engine"
  /\ inv' = [inv EXCEPT ![i].newSessionId = Token(i)]
  /\ UNCHANGED <<streamVars, activeStreams, confVars, sessVars, brokerVars>>

\* queryWithStream's loop body for an engine message that carries the run's
\* session id: a system init message sets newSessionId and stamps the stream,
\* any other message does so when newSessionId is still null
EngineSessionEvent(i) ==
  /\ i \in InvIds
  /\ inv[i].pc = "engine"
  /\ inv' = [inv EXCEPT ![i].newSessionId = Token(i)]
  /\ streams' = [streams EXCEPT ![i] = setSessionId(@, Token(i))]
  /\ UNCHANGED <<pushed, consumed, thrown, activeStreams, confVars, sessVars, brokerVars>>

\* variant of canUseTool: the hook tests that a response came back instead of
\* its allowed field
canUseToolAnyResponse(q) == IF q.result = "pending" THEN "none" ELSE "allow"

\* the canUseTool hook of createCanUseTool: it awaits requestPermission and
\* returns behavior 'allow' when response.allowed, else behavior 'deny'; "none"
\* while the future is not settled. The continuation runs in the microtask
\* that follows the settling, before any other handler
canUseTool(q) ==
  IF q.result = "pending" THEN "none"
  ELSE IF q.result = "allow" THEN "allow" ELSE "deny"

\* the engine calls the canUseTool hook: createCanUseTool -> requestPermission
EngineToolUse(i, t) ==
  /\ i \in InvIds
  /\ inv[i].pc = "engine"
  /\ HookInstalled
  /\ Len(requests) < MaxReq
  /\ \E ms \in Clock, rnd \in Suffixes :
       requestPermission(inv[i].chat, t, generatePermissionId(ms, rnd))
  /\ UNCHANGED <<streamVars, inv, activeStreams, confVars, sessVars,
                 alwaysAllowedTools, callbacks, ret, grants>>

\* variant of EngineEnd: with no new session id the cached one is saved
EngineEndSavesCached(i) ==
  /\ i \in InvIds
  /\ inv[i].pc = "engine"
  /\ IF inv[i].newSessionId # Null
       THEN saveSession(inv[i].chat, inv[i].newSessionId)
       ELSE saveSession(inv[i].chat, sessions[inv[i].chat])
  /\ inv' = [inv EXCEPT ![i].pc = "respond", ![i].cons = "gone", ![i].newSessionId = Null]
  /\ UNCHANGED <<streamVars, activeStreams, confVars, brokerVars>>

\* the engine's event sequence ends: queryWithStream saves a new session id and
\* returns; processStream goes on to send the response
EngineEnd(i) ==
  /\ i \in InvIds
  /\ inv[i].pc = "engine"
  /\ IF inv[i].newSessionId # Null
       THEN saveSession(inv[i].chat, inv[i].newSessionId)
       ELSE UNCHANGED sessVars
  /\ inv' = [inv EXCEPT ![i].pc = "respond", ![i].cons = "gone", ![i].newSessionId = Null]
  /\ UNCHANGED <<streamVars, activeStreams, confVars, brokerVars>>

\* variant of EngineFail: the catch block saves a session id already received
EngineFailSaves(i) ==
  /\ i \in InvIds
  /\ inv[i].pc = "engine"
  /\ IF inv[i].newSessionId # Null
       THEN saveSession(inv[i].chat, inv[i].newSessionId)
       ELSE UNCHANGED sessVars
  /\ inv' = [inv EXCEPT ![i].pc = "catch", ![i].failed = TRUE, ![i].cons = "gone",
                        ![i].newSessionId = Null]
  /\ UNCHANGED <<streamVars, activeStreams, confVars, brokerVars>>

\* the engine's event sequence throws: queryWithStream rethrows into the catch
\* block of processStream
EngineFail(i) ==
  /\ i \in InvIds
  /\ inv[i].pc = "engine"
  /\ inv' = [inv EXCEPT ![i].pc = "catch", ![i].failed = TRUE, ![i].cons = "gone",
                        ![i].newSessionId = Null]
  /\ UNCHANGED <<streamVars, activeStreams, confVars, sessVars, brokerVars>>

\* the response was sent: processStream returns and the finally callback runs
RespondDone(i) ==
  /\ i \in InvIds
  /\ inv[i].pc = "respond"
  /\ Finally(i)
  /\ UNCHANGED <<confVars, sessVars, brokerVars>>

\* sendResponse throws inside the try
RespondFail(i) ==
  /\ i \in InvIds
  /\ inv[i].pc = "respond"
  /\ inv' = [inv EXCEPT ![i].pc = "catch"]
  /\ UNCHANGED <<streamVars, activeStreams, confVars, sessVars, brokerVars>>

\* the catch block reports the error to the chat (ctx.reply) and awaits it
ReportError(i) ==
  /\ i \in InvIds
  /\ inv[i].pc = "catch"
  /\ inv' = [inv EXCEPT ![i].pc = "reporting"]
  /\ UNCHANGED <<streamVars, activeStreams, confVars, sessVars, brokerVars>>

\* the reply settled: processStream settles and the finally callback runs
ReportDone(i) ==
  /\ i \in InvIds
  /\ inv[i].pc = "reporting"
  /\ Finally(i)
  /\ UNCHANGED <<confVars, sessVars, brokerVars>>

\* clearSession(chatId), the /new command
clearSession(c) ==
  /\ sessions' = [sessions EXCEPT ![c] = IF @ = NoSession THEN NoSession ELSE Null]
  /\ storage' = storeClearSessionId(c)
  /\ alwaysAllowedTools' = clearAlwaysAllowed(c)
  /\ grants' = [grants EXCEPT ![c] = {}]
  /\ cancelPendingForChat(c)
  /\ UNCHANGED <<streamVars, inv, activeStreams, confVars, notify, callbacks, ret>>

\* deleteSession(chatId), the /clear command
deleteSession(c) ==
  /\ sessions' = [sessions EXCEPT ![c] = NoSession]
  /\ storage' = storeDeleteSession(c)
  /\ alwaysAllowedTools' = clearAlwaysAllowed(c)
  /\ grants' = [grants EXCEPT ![c] = {}]
  /\ cancelPendingForChat(c)
  /\ UNCHANGED <<streamVars, inv, activeStreams, confVars, notify, callbacks, ret>>

\* ------------------------------------------------------- specifications
\* the clock advanced between any two generatePermissionId calls, so the ids
\* differ in their millisecond (the digits are then immaterial: "a")
OneCallPerMs ==
  \A k \in ReqIds : requests[k].stored =>
    /\ requests[k].id[2] = "a"
    /\ \A j \in 1..(k - 1) : requests[j].id[1] < requests[k].id[1]

\* Spec: the orchestrator with the permission hook not installed. Users send
\* content and /cancel; the engine reads its input, reports its session id, ends
\* or fails; Telegram calls succeed or fail.
Init ==
  /\ streams = <<>>
  /\ pushed = <<>>
  /\ consumed = <<>>
  /\ thrown = FALSE
  /\ inv = <<>>
  /\ activeStreams = [c \in Chats |-> 0]
  /\ permissionMode = "bypassPermissions"
  /\ onPermissionRequest = TRUE
  /\ whitelist = {}
  /\ claudeArgs = <<>>
  /\ split = NoSplit
  /\ sessions = [c \in Chats |-> NoSession]
  /\ storage = [c \in Chats |-> NoRecord]
  /\ requests = <<>>
  /\ notify = <<>>
  /\ pendingPermissions = {}
  /\ alwaysAllowedTools = [c \in Chats |-> {}]
  /\ callbacks = {}
  /\ ret = "none"
  /\ grants = [c \in Chats |-> {}]

Next ==
  \/ \E c \in Chats : injectOrStartMessage(c, NextText(c))
  \/ \E c \in Chats : cancelProcessing(c)
  \/ \E i \in InvIds : TypingOk(i)
  \/ \E i \in InvIds : TypingFail(i)
  \/ \E i \in InvIds : EngineNext(i)
  \/ \E i \in InvIds : EngineResume(i)
  \/ \E i \in InvIds : EngineSessionEvent(i)
  \/ \E i \in InvIds : EngineEnd(i)
  \/ \E i \in InvIds : EngineFail(i)
  \/ \E i \in InvIds : RespondDone(i)
  \/ \E i \in InvIds : RespondFail(i)
  \/ \E i \in InvIds : ReportError(i)
  \/ \E i \in InvIds : ReportDone(i)

Spec == Init /\ [][Next]_vars

\* BrokerSpec: the PermissionManager under permissionMode 'default', from the
\* state in which every chat has an invocation whose engine is running (and
\* no cached session: a /clear came after the invocation started). The
\* notify callback is set (as TelegramBot's constructor does) or still null (a
\* PermissionManager as constructed). The engine calls the hook, Telegram
\* delivers or fails the prompt, users press buttons and send /new and /clear,
\* timers fire.
BrokerInit ==
  /\ streams = [c \in Chats |-> pushText(newMessageStream, TextNames[1])]
  /\ pushed = [c \in Chats |-> <<createMessage(newMessageStream, TextNames[1])>>]
  /\ consumed = [c \in Chats |-> <<>>]
  /\ thrown = FALSE
  /\ inv = [c \in Chats |-> [chat |-> c, pc |-> "engine", cons |-> "idle",
                             newSessionId |-> Null, failed |-> FALSE]]
  /\ activeStreams = [c \in Chats |-> c]
  /\ permissionMode = "default"
  /\ onPermissionRequest \in BOOLEAN
  /\ whitelist = {}
  /\ claudeArgs = <<>>
  /\ split = NoSplit
  /\ sessions = [c \in Chats |-> NoSession]
  /\ storage = [c \in Chats |-> NoRecord]
  /\ requests = <<>>
  /\ notify = <<>>
  /\ pendingPermissions = {}
  /\ alwaysAllowedTools = [c \in Chats |-> {}]
  /\ callbacks = {}
  /\ ret = "none"
  /\ grants = [c \in Chats |-> {}]

BrokerNext ==
  \/ \E i \in InvIds, t \in Tools : EngineToolUse(i, t) /\ OneCallPerMs'
  \/ \E id \in ReqIds : NotifyDone(id)
  \/ \E id \in ReqIds : NotifyFail(id)
  \/ \E id \in ReqIds : handleTimeout(id)
  \/ \E id \in ReqIds, a \in CallbackActions : CallbackBegin(id, a)
  \/ \E cb \in callbacks : CallbackResolve(cb)
  \/ \E c \in Chats : clearSession(c)
  \/ \E c \in Chats : deleteSession(c)

BrokerSpec == BrokerInit /\ [][BrokerNext]_vars

\* FairSpec: Spec where every started processStream keeps being scheduled: the
\* Telegram calls it awaits settle and the engine run ends (or fails)
Progress(i) ==
  \/ TypingOk(i) \/ TypingFail(i)
  \/ EngineEnd(i) \/ EngineFail(i)
  \/ RespondDone(i) \/ RespondFail(i)
  \/ ReportError(i) \/ ReportDone(i)

FairSpec == Spec /\ \A i \in 1..MaxInv : WF_vars(Progress(i))

\* ---------------------------------------------------------------- claims
\* the engine of invocation i is running
Running(i) == inv[i].pc = "engine"

\* items of stream s handed to the waiting iterator and not yet taken by it
InFlight(s) ==
  IF streams[s].handoff # <<>> /\ streams[s].handoff[1] # EOS
    THEN streams[s].handoff ELSE <<>>

\* C1: a stored PendingPermission is settled exactly once however
\* resolvePermission, the timeout and cancelPendingForChat interleave: while
\* its entry is in the map it has not been settled, once the entry is gone it
\* has been settled by exactly one call, and a resolver that comes later
\* changes neither the settled value nor the broker's state.
C1_StateOk ==
  \A r \in ReqIds :
    requests[r].stored =>
      /\ requests[r].resolveCalls = IF r \in pendingPermissions THEN 0 ELSE 1
      /\ (requests[r].result = "pending") <=> (r \in pendingPermissions)

C1_LateResolverNoOp ==
  /\ \A cb \in callbacks :
       (cb.id \notin pendingPermissions /\ CallbackResolve(cb)) =>
          UNCHANGED <<requests, pendingPermissions, alwaysAllowedTools>>
  /\ \A r \in ReqIds :
       (requests[r].stored /\ requests[r].result # "pending") =>
          requests'[r].result = requests[r].result

C2_AtMostOneRunning ==
  \A i \in InvIds, j \in InvIds :
    (i # j /\ inv[i].chat = inv[j].chat) => ~(Running(i) /\ Running(j))

\* C3: a content message for a chat that is Active with an open channel appends
\* exactly one item to that channel and creates neither a channel nor an
\* invocation; for an Idle chat it creates a new channel whose only item is
\* the message, makes it the chat's entry and launches exactly one invocation.
C3_Step ==
  \A c \in Chats :
    injectOrStartMessage(c, NextText(c)) =>
      /\ ActiveOpen(c) =>
           LET a == activeStreams[c] IN
             /\ Len(inv') = Len(inv) /\ Len(streams') = Len(streams)
             /\ activeStreams' = activeStreams
             /\ Len(pushed'[a]) = Len(pushed[a]) + 1
             /\ SubSeq(pushed'[a], 1, Len(pushed[a])) = pushed[a]
             /\ pushed'[a][Len(pushed'[a])].text = NextText(c)
             /\ \A s \in InvIds \ {a} : pushed'[s] = pushed[s]
      /\ activeStreams[c] = 0 =>
           LET n == Len(inv) + 1 IN
             /\ Len(inv') = n /\ Len(streams') = n
             /\ activeStreams' = [activeStreams EXCEPT ![c] = n]
             /\ inv'[n].chat = c /\ inv'[n].pc = "typing"
             /\ Len(pushed'[n]) = 1 /\ pushed'[n][1].text = NextText(c)
             /\ ~streams'[n].closed
             /\ \A s \in InvIds : pushed'[s] = pushed[s] /\ inv'[s] = inv[s]

C3_InjectOrStart == [][C3_Step]_vars

\* a message was injected into the channel of a running turn
C3_Witness ==
  \E c \in Chats :
    /\ ActiveOpen(c)
    /\ Len(pushed[activeStreams[c]]) >= 2
    /\ Running(activeStreams[c])

\* C4: the consumer of a channel observes exactly the items pushed into it,
\* each once and in push order: at every instant the items pushed are the
\* items already yielded, then the item in hand-off, then the queue.
C4_ExactlyOnceInOrder ==
  \A s \in InvIds : pushed[s] = consumed[s] \o InFlight(s) \o streams[s].queue

\* the engine has taken a seeded item and an injected one, the second through
\* the queue of a stream that already held an unread item
C4_Witness ==
  \E s \in InvIds :
    /\ Len(consumed[s]) >= 2
    /\ consumed[s][1].text = TextNames[1]
    /\ consumed[s][2].text = TextNames[2]

\* C5: whenever processing ends, be it by result, engine error or any
\* exception, the invocation's channel is closed and the chat's active entry
\* is removed; and a chat that is Active eventually is Idle again, given that
\* the engine run ends and the Telegram calls settle.
C5_EndStep ==
  \A i \in InvIds :
    (inv[i].pc # "done" /\ inv'[i].pc = "done") =>
       /\ streams'[i].closed
       /\ activeStreams'[inv[i].chat] = 0

C5_CleanupAlways ==
  /\ [][C5_EndStep]_vars
  /\ \A c \in Chats : (activeStreams[c] # 0) ~> (activeStreams[c] = 0)

\* an invocation ended and was cleaned up: its chat is Idle again while the
\* other chat is still Active
C5_Witness ==
  \E i \in InvIds :
    /\ inv[i].pc = "done"
    /\ streams[i].closed
    /\ activeStreams[inv[i].chat] = 0
    /\ \E c \in Chats : activeStreams[c] # 0

\* C6: when the engine fails, the failure is reported to the chat only after
\* the cleanup (channel closed, active entry removed) has completed.
C6_ReportAfterCleanup ==
  \A i \in InvIds :
    (inv[i].failed /\ inv[i].pc = "reporting") =>
       /\ streams[i].closed
       /\ activeStreams[inv[i].chat] # i

\* C7: after an engine failure for a chat, every later message for that chat
\* creates a new channel and launches a new invocation; it is never pushed
\* into the failed invocation's channel.
C7_Step ==
  \A i \in InvIds :
    (inv[i].failed /\ injectOrStartMessage(inv[i].chat, NextText(inv[i].chat))) =>
       /\ pushed'[i] = pushed[i]
       /\ Len(inv') = Len(inv) + 1

C7_FreshAfterFailure == [][C7_Step]_vars

\* C8: every message accepted by a channel is delivered to the engine, in
\* push order; none is accepted and then never consumed: when processing
\* ends, the items yielded to the engine are the items pushed.
C8_Step ==
  \A i \in InvIds :
    (inv[i].pc # "done" /\ inv'[i].pc = "done") => consumed[i] = pushed[i]

C8_AllDelivered == [][C8_Step]_vars

\* C9: resolvePermission returns true exactly when the entry is present, and
\* then removes it, clears its timer and settles its future with the given
\* response; otherwise it returns false and changes nothing, the always-allow
\* set included.
C9_Call(id, response) ==
  IF id \in pendingPermissions
    THEN /\ ret' = "true"
         /\ pendingPermissions' = pendingPermissions \ {id}
         /\ requests'[id].timer = "cleared"
         /\ requests'[id].result = Value(response)
         /\ requests'[id].resolveCalls = requests[id].resolveCalls + 1
         /\ \A r \in ReqIds \ {id} : requests'[r] = requests[r]
    ELSE /\ ret' = "false"
         /\ UNCHANGED <<requests, pendingPermissions, alwaysAllowedTools>>

C9_Step ==
  /\ \A cb \in callbacks : CallbackResolve(cb) => C9_Call(cb.id, Response(cb.action))
  /\ \A id \in ReqIds : NotifyFail(id) => C9_Call(id, Denied)

C9_ResolveCheckAndDelete == [][C9_Step]_vars

\* a button press resolved a request after its timer had fired and got false
C9_Witness ==
  /\ ret = "false"
  /\ \E r \in ReqIds : requests[r].timer = "fired" /\ requests[r].result = "deny"

\* C10: after an always-allow resolve for chat c and tool t (and no clear of
\* the chat since), a later requestPermission(c, t) settles at once as allowed:
\* no entry is stored, no timer armed, no notify callback started.
C10_Step ==
  \A i \in InvIds, t \in Tools :
    (t \in grants[inv[i].chat] /\ EngineToolUse(i, t)) =>
       LET r == Len(requests) + 1 IN
         /\ Len(requests') = r
         /\ requests'[r].result = "allow"
         /\ ~requests'[r].stored
         /\ requests'[r].timer = "none"
         /\ notify'[r] = "none"
         /\ pendingPermissions' = pendingPermissions

C10_AlwaysAllowFastPath == [][C10_Step]_vars

\* a request for a tool granted "always" was answered on the fast path
C10_Witness ==
  \E r \in ReqIds :
    /\ ~requests[r].stored
    /\ requests[r].result = "allow"
    /\ requests[r].toolName \in grants[requests[r].chatId]

\* requests of chat c that are pending
PendingOf(c) == {r \in pendingPermissions : requests[r].chatId = c}

\* C11: cancelPendingForChat(c), as invoked by clearSession(c) and
\* deleteSession(c), settles every request pending for chat c as denied, clears
\* its timer and leaves no entry of c in the broker; the other chats' entries
\* and requests are untouched.
C11_Step ==
  \A c \in Chats :
    (clearSession(c) \/ deleteSession(c)) =>
       /\ \A r \in PendingOf(c) :
            /\ requests'[r].result = "deny"
            /\ requests'[r].timer = "cleared"
            /\ requests'[r].resolveCalls = requests[r].resolveCalls + 1
       /\ {r \in pendingPermissions' : requests'[r].chatId = c} = {}
       /\ pendingPermissions' = pendingPermissions \ PendingOf(c)
       /\ \A r \in ReqIds \ PendingOf(c) : requests'[r] = requests[r]

C11_CancelPendingForChat == [][C11_Step]_vars

\* two requests of one chat were cancelled together: both are denied with a
\* cleared timer although resolvePermission was never called
C11_Witness ==
  /\ ret = "none"
  /\ \E r \in ReqIds, q \in ReqIds :
       /\ r # q
       /\ requests[r].chatId = requests[q].chatId
       /\ \A x \in {r, q} :
            /\ requests[x].stored
            /\ requests[x].result = "deny"
            /\ requests[x].timer = "cleared"
            /\ x \notin pendingPermissions

\* FairBrokerSpec: BrokerSpec where an armed timer that is not cleared fires
FairBrokerSpec == BrokerSpec /\ \A id \in 1..MaxReq : WF_vars(handleTimeout(id))

\* C12: every future returned by requestPermission eventually settles: the
\* timeout of a request that is still pending settles it as denied and removes
\* its entry, and a pending request does not stay pending for ever.
C12_TimeoutStep ==
  \A id \in ReqIds :
    (id \in pendingPermissions /\ handleTimeout(id)) =>
       /\ requests'[id].result = "deny"
       /\ requests'[id].resolveCalls = 1
       /\ pendingPermissions' = pendingPermissions \ {id}

C13_Step ==
  \A id \in ReqIds :
    NotifyFail(id) =>
       /\ id \in pendingPermissions =>
            /\ requests'[id].result = "deny"
            /\ requests'[id].resolveCalls = 1
            /\ requests'[id].timer = "cleared"
       /\ id \notin pendingPermissions'
       /\ pendingPermissions' = pendingPermissions \ {id}
       /\ \A r \in ReqIds \ {id} : requests'[r] = requests[r]
       /\ UNCHANGED <<alwaysAllowedTools, inv, streams>>

C14_StateOk ==
  \A r \in ReqIds :
    /\ r \in pendingPermissions => canUseTool(requests[r]) = "none"
    /\ canUseTool(requests[r]) = "allow" => requests[r].result = "allow"
    /\ \E i \in InvIds : inv[i].chat = requests[r].chatId /\ Running(i)

C14_Step ==
  /\ \A cb \in callbacks :
       (cb.id \in pendingPermissions /\ CallbackResolve(cb)) =>
          canUseTool(requests'[cb.id]) =
            IF cb.action \in {"allow", "always"} THEN "allow" ELSE "deny"
  /\ \A id \in ReqIds :
       (id \in pendingPermissions /\ (handleTimeout(id) \/ NotifyFail(id))) =>
          canUseTool(requests'[id]) = "deny"
  /\ \A c \in Chats :
       (clearSession(c) \/ deleteSession(c)) =>
          \A r \in PendingOf(c) : canUseTool(requests'[r]) = "deny"
  /\ \A i \in InvIds, t \in Tools :
       EngineToolUse(i, t) =>
          canUseTool(requests'[Len(requests) + 1]) =
            IF isToolAlwaysAllowed(inv[i].chat, t) THEN "allow"
            ELSE IF ~onPermissionRequest THEN "deny" ELSE "none"
  /\ \A r \in ReqIds :
       canUseTool(requests[r]) # "none" =>
          canUseTool(requests'[r]) = canUseTool(requests[r])
  /\ UNCHANGED inv

C14_HookDecision == [](C14_StateOk) /\ [][C14_Step]_vars

\* the hook answered deny for a request that timed out and allow for another
C14_Witness ==
  \E r \in ReqIds, q \in ReqIds :
    /\ canUseTool(requests[r]) = "deny" /\ requests[r].timer = "fired"
    /\ canUseTool(requests[q]) = "allow"

\* JointSpec: orchestrator and PermissionManager together, from the state in
\* which every chat has a running invocation and the hook of chat 1's
\* invocation has a request pending whose prompt was delivered. Users send
\* content and press buttons, the engine reads its input and calls the hook,
\* timers fire.
JointInit ==
  /\ streams = [c \in Chats |-> pushText(newMessageStream, TextNames[1])]
  /\ pushed = [c \in Chats |-> <<createMessage(newMessageStream, TextNames[1])>>]
  /\ consumed = [c \in Chats |-> <<>>]
  /\ thrown = FALSE
  /\ inv = [c \in Chats |-> [chat |-> c, pc |-> "engine", cons |-> "idle",
                             newSessionId |-> Null, failed |-> FALSE]]
  /\ activeStreams = [c \in Chats |-> c]
  /\ permissionMode = "default"
  /\ onPermissionRequest = TRUE
  /\ whitelist = {}
  /\ claudeArgs = <<>>
  /\ split = NoSplit
  /\ sessions = [c \in Chats |-> NoSession]
  /\ storage = [c \in Chats |-> NoRecord]
  /\ requests = <<[chatId |-> 1, toolName |-> "Bash", stored |-> TRUE, timer |-> "armed",
                   result |-> "pending", resolveCalls |-> 0,
                   id |-> generatePermissionId(1, "a")]>>
  /\ notify = <<"sent">>
  /\ pendingPermissions = {1}
  /\ alwaysAllowedTools = [c \in Chats |-> {}]
  /\ callbacks = {}
  /\ ret = "none"
  /\ grants = [c \in Chats |-> {}]

JointNext ==
  \/ \E c \in Chats : injectOrStartMessage(c, NextText(c))
  \/ \E i \in InvIds : EngineNext(i)
  \/ \E i \in InvIds : EngineResume(i)
  \/ \E i \in InvIds, t \in Tools : EngineToolUse(i, t) /\ OneCallPerMs'
  \/ \E id \in ReqIds : NotifyDone(id)
  \/ \E id \in ReqIds : handleTimeout(id)
  \/ \E id \in ReqIds, a \in CallbackActions : CallbackBegin(id, a)
  \/ \E cb \in callbacks : CallbackResolve(cb)

JointSpec == JointInit /\ [][JointNext]_vars

\* C15: while a permission decision for a chat is pending, a message for
\* that chat is still pushed into the active channel: the pending request
\* neither blocks nor rejects the push, and the push leaves the request alone.
C15_NeverBlocked ==
  \A c \in Chats :
    (PendingOf(c) # {} /\ ActiveOpen(c) /\ Len(pushed[activeStreams[c]]) < MaxPush) =>
       ENABLED injectOrStartMessage(c, NextText(c))

C15_Step ==
  \A c \in Chats :
    (PendingOf(c) # {} /\ ActiveOpen(c) /\ injectOrStartMessage(c, NextText(c))) =>
       LET a == activeStreams[c] IN
         /\ Len(pushed'[a]) = Len(pushed[a]) + 1
         /\ pushed'[a][Len(pushed'[a])].text = NextText(c)
         /\ Len(streams'[a].queue) + Len(streams'[a].handoff)
              = Len(streams[a].queue) + Len(streams[a].handoff) + 1
         /\ thrown' = FALSE
         /\ UNCHANGED <<requests, pendingPermissions, notify, inv>>

C15_PushWhilePending == [](C15_NeverBlocked) /\ [][C15_Step]_vars

\* chat 1's first request is still pending and its channel has taken an
\* injected message since
C15_Witness ==
  /\ 1 \in pendingPermissions
  /\ requests[1].chatId = 1
  /\ ActiveOpen(1)
  /\ Len(pushed[activeStreams[1]]) >= 2

\* StreamSpec: the MessageStream API on its own. Each chat has one stream
\* with one consumer iterating over it; clients call pushText() and close() in
\* any order and any number of times, the consumer asks for the next item and
\* resumes from its wait.
StreamInit ==
  /\ streams = [c \in Chats |-> newMessageStream]
  /\ pushed = [c \in Chats |-> <<>>]
  /\ consumed = [c \in Chats |-> <<>>]
  /\ thrown = FALSE
  /\ inv = [c \in Chats |-> [chat |-> c, pc |-> "engine", cons |-> "idle",
                             newSessionId |-> Null, failed |-> FALSE]]
  /\ activeStreams = [c \in Chats |-> c]
  /\ permissionMode = "bypassPermissions"
  /\ onPermissionRequest = TRUE
  /\ whitelist = {}
  /\ claudeArgs = <<>>
  /\ split = NoSplit
  /\ sessions = [c \in Chats |-> NoSession]
  /\ storage = [c \in Chats |-> NoRecord]
  /\ requests = <<>>
  /\ notify = <<>>
  /\ pendingPermissions = {}
  /\ alwaysAllowedTools = [c \in Chats |-> {}]
  /\ callbacks = {}
  /\ ret = "none"
  /\ grants = [c \in Chats |-> {}]

\* a client calls pushText(text) on stream i, whatever the stream's state
StreamPush(i) ==
  /\ i \in InvIds
  /\ streams[i].closed \/ Len(pushed[i]) < MaxPush
  /\ LET text == TextNames[Len(pushed[i]) + 1] IN
       /\ streams' = [streams EXCEPT ![i] = pushText(@, text)]
       /\ pushed' = IF pushThrows(streams[i])
                      THEN pushed
                      ELSE [pushed EXCEPT ![i] = Append(@, createMessage(streams[i], text))]
       /\ thrown' = pushThrows(streams[i])
  /\ UNCHANGED <<consumed, inv, activeStreams, confVars, sessVars, brokerVars>>

\* a client calls close() on stream i, whatever the stream's state
StreamClose(i) ==
  /\ i \in InvIds
  /\ streams' = [streams EXCEPT ![i] = close(@)]
  /\ UNCHANGED <<pushed, consumed, thrown, inv, activeStreams, confVars, sessVars,
                 brokerVars>>

StreamNext ==
  \/ \E i \in InvIds : StreamPush(i)
  \/ \E i \in InvIds : StreamClose(i)
  \/ \E i \in InvIds : EngineNext(i)
  \/ \E i \in InvIds : EngineResume(i)

StreamSpec == StreamInit /\ [][StreamNext]_vars

\* C16: push and pushText on a closed MessageStream always throw to the
\* pusher and leave the queue, the waiting slot and the closed flag (the whole
\* stream) unchanged; on an open stream they do not throw.
C16_Step ==
  \A i \in InvIds :
    StreamPush(i) =>
       IF streams[i].closed
         THEN /\ thrown'
              /\ streams'[i] = streams[i]
              /\ pushed'[i] = pushed[i]
         ELSE /\ ~thrown'
              /\ streams'[i] # streams[i]

C16_PushOnClosedThrows == [][C16_Step]_vars

\* a push on a closed stream that still holds an unread item has thrown
C16_Witness ==
  /\ thrown
  /\ \E i \in InvIds : streams[i].closed /\ Len(streams[i].queue) = 1
                       /\ Len(pushed[i]) = 1

\* C17: close() is idempotent and never throws: in any state close() twice
\* leaves the stream as close() once does, close() on a closed stream changes
\* nothing, and a waiting consumer is handed end-of-stream at most once (only
\* by the close() that finds it waiting on an open stream).
C17_StateOk ==
  \A i \in InvIds :
    /\ close(close(streams[i])) = close(streams[i])
    /\ close(streams[i]).closed
    /\ streams[i].closed => close(streams[i]) = streams[i]
    /\ streams[i].closed => ~streams[i].pendingResolve

C17_Step ==
  \A i \in InvIds :
    /\ StreamClose(i) => thrown' = thrown /\ pushed' = pushed /\ consumed' = consumed
    /\ (streams'[i].handoff = <<EOS>> /\ streams[i].handoff # <<EOS>>) =>
          /\ ~streams[i].closed
          /\ streams[i].pendingResolve
          /\ inv[i].cons = "waiting"

C17_CloseIdempotent == [](C17_StateOk) /\ [][C17_Step]_vars

\* a consumer that was waiting has been woken with end-of-stream by close(),
\* and a further close() would leave the stream as it is
C17_Witness ==
  \E i \in InvIds :
    /\ streams[i].closed
    /\ streams[i].handoff = <<EOS>>
    /\ inv[i].cons = "waiting"
    /\ close(streams[i]) = streams[i]

\* FairStreamSpec: StreamSpec with a consumer that keeps reading
FairStreamSpec ==
  StreamSpec /\ \A i \in Chats : WF_vars(EngineNext(i) \/ EngineResume(i))

\* C18: once close() has been called the consumed sequence is finite: a
\* consumer that keeps reading gets the items still queued, in order, and then
\* its iteration ends; a consumer waiting at the time of close() is woken and
\* ends without yielding another item; an ended iteration yields nothing more.
C18_Step ==
  \A i \in InvIds :
    /\ (streams[i].closed /\ EngineNext(i)) =>
          IF streams[i].queue = <<>>
            THEN inv'[i].cons = "ended" /\ consumed'[i] = consumed[i]
            ELSE /\ consumed'[i] = Append(consumed[i], Head(streams[i].queue))
                 /\ streams'[i].queue = Tail(streams[i].queue)
                 /\ inv'[i].cons = "idle"
    /\ (streams[i].pendingResolve /\ StreamClose(i)) =>
          streams'[i].handoff = <<EOS>> /\ consumed'[i] = consumed[i]
    /\ (streams[i].handoff = <<EOS>> /\ EngineResume(i)) =>
          inv'[i].cons = "ended" /\ consumed'[i] = consumed[i]
    /\ inv[i].cons = "ended" =>
          inv'[i].cons = "ended" /\ consumed'[i] = consumed[i]
    /\ streams[i].closed => Len(consumed'[i]) <= Len(pushed[i])

C18_FiniteOnceClosed ==
  /\ [][C18_Step]_vars
  /\ \A i \in Chats : streams[i].closed ~> (inv[i].cons = "ended")

\* after close() the consumer read the two items that were queued and ended
C18_Witness ==
  \E i \in InvIds :
    /\ streams[i].closed
    /\ inv[i].cons = "ended"
    /\ Len(consumed[i]) = 2
    /\ consumed[i] = pushed[i]

\* C19: if a consumer is waiting, push(item) hands the item to it as its next
\* observed item, does not enqueue it and clears the waiting slot; items pushed
\* after that and before the consumer has resumed are queued, and are observed
\* after the handed item, in push order.
C19_StateOk ==
  \A i \in InvIds :
    InFlight(i) # <<>> =>
       /\ ~streams[i].pendingResolve
       /\ inv[i].cons = "waiting"
       /\ InFlight(i)[1] = pushed[i][Len(consumed[i]) + 1]
       /\ streams[i].queue = SubSeq(pushed[i], Len(consumed[i]) + 2, Len(pushed[i]))

C19_Step ==
  \A i \in InvIds :
    /\ (streams[i].pendingResolve /\ ~streams[i].closed /\ StreamPush(i)) =>
          /\ streams'[i].handoff = <<pushed'[i][Len(pushed'[i])]>>
          /\ streams'[i].queue = streams[i].queue
          /\ streams[i].queue = <<>>
          /\ ~streams'[i].pendingResolve
    /\ (InFlight(i) # <<>> /\ ~streams[i].closed /\ StreamPush(i)) =>
          /\ streams'[i].handoff = streams[i].handoff
          /\ streams'[i].queue = Append(streams[i].queue, pushed'[i][Len(pushed'[i])])
    /\ (InFlight(i) # <<>> /\ EngineResume(i)) =>
          /\ consumed'[i] = Append(consumed[i], InFlight(i)[1])
          /\ streams'[i].queue = streams[i].queue
          /\ streams'[i].handoff = <<>>
    /\ InFlight(i) # <<>> => ~ENABLED EngineNext(i)

C19_DirectHandoff == [](C19_StateOk) /\ [][C19_Step]_vars

\* an item was handed to the waiting consumer and, before the consumer has
\* resumed, another item was pushed and queued behind it
C19_Witness ==
  \E i \in InvIds :
    /\ InFlight(i) # <<>>
    /\ InFlight(i)[1].text = TextNames[1]
    /\ Len(streams[i].queue) = 1
    /\ streams[i].queue[1].text = TextNames[2]
    /\ consumed[i] = <<>>

\* C20: every token written to the session store for a chat is a token the
\* engine emitted during an invocation for that chat: the store changes only
\* when an engine run of the chat ends, to the session id that run reported;
\* a run that reported none writes nothing, and no token is made up locally.
C20_StateOk ==
  /\ \A i \in InvIds :
       inv[i].newSessionId # Null =>
          inv[i].newSessionId = Token(i) /\ Running(i)
  /\ \A c \in Chats :
       /\ storage[c] \in Tokens \cup {NoRecord}
       /\ storage[c] \in Tokens =>
            \E i \in InvIds :
              inv[i].chat = c /\ storage[c] = Token(i) /\ inv[i].pc # "typing"

C20_Step ==
  /\ \A c \in Chats :
       storage'[c] # storage[c] =>
          \E i \in InvIds :
            /\ inv[i].chat = c
            /\ EngineEnd(i)
            /\ inv[i].newSessionId # Null
            /\ storage'[c] = inv[i].newSessionId
  /\ \A i \in InvIds :
       /\ (inv[i].newSessionId = Null /\ EngineEnd(i)) => storage' = storage
       /\ (inv[i].newSessionId = Null /\ inv'[i].newSessionId # Null) =>
             EngineSessionEvent(i)

C20_StoredTokenFromEngine == [](C20_StateOk) /\ [][C20_Step]_vars

\* the store holds for a chat the token of its second invocation, written
\* over the token of its first
C20_Witness ==
  \E c \in Chats, i \in InvIds, j \in InvIds :
    /\ i < j
    /\ inv[i].chat = c /\ inv[j].chat = c
    /\ storage[c] = Token(j)
    /\ sessions[c] = Token(j)

\* C21: once the engine's session event with token t has been processed in an
\* invocation, the invocation's channel is stamped with t and stays so until
\* the invocation's cleanup, and every message created by pushText on that
\* channel from then on carries session id t.
C21_StateOk ==
  \A i \in InvIds :
    inv[i].newSessionId # Null => streams[i].sessionId = inv[i].newSessionId

C21_Step ==
  \A i \in InvIds :
    streams[i].sessionId = Token(i) =>
       /\ inv'[i].pc # "done" => streams'[i].sessionId = Token(i)
       /\ (activeStreams[inv[i].chat] = i
             /\ injectOrStartMessage(inv[i].chat, NextText(inv[i].chat))
             /\ Len(pushed'[i]) = Len(pushed[i]) + 1) =>
            pushed'[i][Len(pushed'[i])].session_id = Token(i)

C21_StampAfterInit == [](C21_StateOk) /\ [][C21_Step]_vars

\* a channel holds a message created before the session event (no session
\* id) and one created after it (the run's token)
C21_Witness ==
  \E i \in InvIds :
    /\ Len(pushed[i]) >= 2
    /\ pushed[i][1].session_id = ""
    /\ pushed[i][2].session_id = Token(i)

\* C22: a tool enters a chat's always-allowed set only by a resolvePermission
\* that returns true for a pending request of that chat and tool with a response
\* allowed and alwaysAllow; clearSession and deleteSession leave the chat's set
\* empty; a response for a request that is no longer pending adds nothing.
C22_Enters ==
  \A c \in Chats : \A t \in Tools :
    (t \in alwaysAllowedTools'[c] /\ t \notin alwaysAllowedTools[c]) =>
      \E cb \in callbacks :
        /\ CallbackResolve(cb)
        /\ cb.id \in pendingPermissions
        /\ requests[cb.id].chatId = c
        /\ requests[cb.id].toolName = t
        /\ Response(cb.action).allowed
        /\ Response(cb.action).alwaysAllow
        /\ ret' = "true"

C22_Cleared ==
  \A c \in Chats :
    (clearSession(c) \/ deleteSession(c)) => alwaysAllowedTools'[c] = {}

C22_Late ==
  \A cb \in callbacks :
    (CallbackResolve(cb) /\ cb.id \notin pendingPermissions) =>
      /\ ret' = "false"
      /\ alwaysAllowedTools' = alwaysAllowedTools

C22_AlwaysAllowSet == [][C22_Enters /\ C22_Cleared /\ C22_Late]_vars

\* an "always" press that was suspended while its request was cancelled by
\* /new or /clear has come back: false returned, the chat's set still empty
C22_Witness ==
  /\ Len(requests) = 1
  /\ notify[1] = "sent"
  /\ requests[1].timer = "cleared"
  /\ requests[1].result = "deny"
  /\ ret = "false"
  /\ callbacks = {}
  /\ alwaysAllowedTools[requests[1].chatId] = {}

\* FrameSpec: the bot under permissionMode 'default' from states in which each
\* chat has a session from an earlier turn and an always-allowed tool, and the
\* chats named in order have a turn running (resumed from that session) with a
\* permission request pending. Users send content, /cancel, /new and /clear;
\* the turns run to completion.
FrameInit ==
  \E order \in {<<1, 2>>, <<2>>} :
    /\ streams = [k \in 1..Len(order) |->
                    setSessionId(pushText(newMessageStream, TextNames[1]), TokenNames[2 + order[k]])]
    /\ pushed = [k \in 1..Len(order) |-> <<createMessage(newMessageStream, TextNames[1])>>]
    /\ consumed = [k \in 1..Len(order) |-> <<>>]
    /\ thrown = FALSE
    /\ inv = [k \in 1..Len(order) |-> [chat |-> order[k], pc |-> "engine", cons |-> "idle",
                                       newSessionId |-> Null, failed |-> FALSE]]
    /\ activeStreams = [c \in Chats |->
                          IF \E k \in 1..Len(order) : order[k] = c
                            THEN CHOOSE k \in 1..Len(order) : order[k] = c
                            ELSE 0]
    /\ permissionMode = "default"
    /\ onPermissionRequest = TRUE
    /\ whitelist = {}
    /\ claudeArgs = <<>>
    /\ split = NoSplit
    /\ sessions = [c \in Chats |-> TokenNames[2 + c]]
    /\ storage = [c \in Chats |-> TokenNames[2 + c]]
    /\ requests = [k \in 1..Len(order) |->
                     [chatId |-> order[k], toolName |-> "Bash", stored |-> TRUE,
                      timer |-> "armed", result |-> "pending", resolveCalls |-> 0,
                      id |-> generatePermissionId(k, "a")]]
    /\ notify = [k \in 1..Len(order) |-> "sent"]
    /\ pendingPermissions = 1..Len(order)
    /\ alwaysAllowedTools = [c \in Chats |-> {"Read"}]
    /\ callbacks = {}
    /\ ret = "none"
    /\ grants = [c \in Chats |-> {"Read"}]

FrameNext ==
  \/ \E c \in Chats : injectOrStartMessage(c, NextText(c))
  \/ \E c \in Chats : cancelProcessing(c)
  \/ \E c \in Chats : clearSession(c)
  \/ \E c \in Chats : deleteSession(c)
  \/ \E i \in InvIds : TypingOk(i)
  \/ \E i \in InvIds : TypingFail(i)
  \/ \E i \in InvIds : EngineSessionEvent(i)
  \/ \E i \in InvIds : EngineEnd(i)
  \/ \E i \in InvIds : EngineFail(i)
  \/ \E i \in InvIds : RespondDone(i)
  \/ \E i \in InvIds : RespondFail(i)
  \/ \E i \in InvIds : ReportError(i)
  \/ \E i \in InvIds : ReportDone(i)

FrameSpec == FrameInit /\ [][FrameNext]_vars

\* what the bot holds for chat b: the activeStreams entry and its channel, the
\* pending permission requests, the always-allowed set, the session token
\* (cached and stored)
ChatState(b) ==
  [active |-> activeStreams[b],
   channel |-> IF activeStreams[b] = 0 THEN newMessageStream ELSE streams[activeStreams[b]],
   pending |-> {<<r, requests[r]>> : r \in PendingOf(b)},
   always |-> alwaysAllowedTools[b],
   cached |-> sessions[b],
   stored |-> storage[b]]

\* an operation addressed to chat a: a message, /cancel, /new and /clear (the
\* only callers of clearAlwaysAllowed and cancelPendingForChat), and the steps
\* of a's invocation up to its completion
AddressedTo(a) ==
  \/ injectOrStartMessage(a, NextText(a))
  \/ cancelProcessing(a)
  \/ clearSession(a)
  \/ deleteSession(a)
  \/ \E i \in InvIds : inv[i].chat = a /\ (Progress(i) \/ EngineSessionEvent(i))

\* C23: every operation addressed to chat a leaves the active channel, the
\* pending permissions, the always-allowed set and the session token of every
\* other chat b unchanged.
C23_Step ==
  \A a \in Chats : AddressedTo(a) =>
    \A b \in Chats \ {a} : ChatState(b)' = ChatState(b)

C23_ChatIsolation == [][C23_Step]_vars

\* chat 1 was cleared and its turn completed while chat 2 still has its
\* channel, its pending request, its always-allowed tool and its token
C23_Witness ==
  /\ activeStreams[1] = 0
  /\ storage[1] = NoRecord
  /\ alwaysAllowedTools[1] = {}
  /\ PendingOf(1) = {}
  /\ ActiveOpen(2)
  /\ PendingOf(2) # {}
  /\ alwaysAllowedTools[2] = {"Read"}
  /\ storage[2] = TokenNames[4]
  /\ \E i \in InvIds : inv[i].chat = 1 /\ inv[i].pc = "done"

\* C24: cancelProcessing(chat) returns true and closes the active channel
\* exactly when the chat has an entry whose channel is open; otherwise it
\* returns false and changes nothing. It removes no entry, moves no invocation
\* and keeps the queued items, and the iterator of a closed channel reaches its
\* end only after every accepted item was yielded to the engine.
C24_Step ==
  \A c \in Chats : cancelProcessing(c) =>
    LET a == activeStreams[c] IN
      /\ cancelProcessingReturns(c) <=> (a # 0 /\ ~streams[a].closed)
      /\ IF cancelProcessingReturns(c)
           THEN /\ streams'[a].closed
                /\ streams'[a].queue = streams[a].queue
                /\ \A j \in InvIds \ {a} : streams'[j] = streams[j]
           ELSE UNCHANGED vars
      /\ UNCHANGED <<activeStreams, inv, pushed, consumed>>

C24_Drained ==
  \A i \in InvIds :
    (Running(i) /\ inv[i].cons = "ended") =>
       /\ streams[i].closed
       /\ consumed[i] = pushed[i]

C24_SoftCancel == [](C24_Drained) /\ [][C24_Step]_vars

\* /cancel has closed the channel of a running invocation: the entry is still
\* there and an item is still queued for the engine
C24_Witness ==
  \E i \in InvIds :
    /\ Running(i)
    /\ activeStreams[inv[i].chat] = i
    /\ streams[i].closed
    /\ streams[i].queue # <<>>
    /\ Len(consumed[i]) < Len(pushed[i])

\* IdSpec: BrokerSpec's PermissionManager with the notify callback set, where
\* two requestPermission calls may fall into the same millisecond and
\* Math.random() may give the same digits twice.
IdInit == BrokerInit /\ onPermissionRequest

IdNext ==
  \/ \E i \in InvIds, t \in Tools : EngineToolUse(i, t)
  \/ \E id \in ReqIds : NotifyDone(id)
  \/ \E id \in ReqIds : NotifyFail(id)
  \/ \E id \in ReqIds : handleTimeout(id)
  \/ \E id \in ReqIds, a \in CallbackActions : CallbackBegin(id, a)
  \/ \E cb \in callbacks : CallbackResolve(cb)

IdSpec == IdInit /\ [][IdNext]_vars

\* C25: a requestPermission that stores an entry uses an id different from the
\* id of every pending entry, so the store removes no entry; every stored
\* request whose future is unsettled still has its entry.
C25_Step ==
  \A i \in InvIds : \A t \in Tools :
    (EngineToolUse(i, t) /\ requests'[Len(requests')].stored) =>
       /\ \A k \in pendingPermissions : requests[k].id # requests'[Len(requests')].id
       /\ pendingPermissions' = pendingPermissions \cup {Len(requests')}

C25_KeepsEntry ==
  \A k \in ReqIds :
    (requests[k].stored /\ requests[k].result = "pending") => k \in pendingPermissions

C25_FreshId == [](C25_KeepsEntry) /\ [][C25_Step]_vars

\* AuthSpec: Spec's orchestrator with a whitelist that is empty or names user 1;
\* messages come from users 1 and 2 and from updates without a sender.
AuthInit ==
  /\ streams = <<>>
  /\ pushed = <<>>
  /\ consumed = <<>>
  /\ thrown = FALSE
  /\ inv = <<>>
  /\ activeStreams = [c \in Chats |-> 0]
  /\ permissionMode = "bypassPermissions"
  /\ onPermissionRequest = TRUE
  /\ whitelist \in {{}, {1}}
  /\ claudeArgs = <<>>
  /\ split = NoSplit
  /\ sessions = [c \in Chats |-> NoSession]
  /\ storage = [c \in Chats |-> NoRecord]
  /\ requests = <<>>
  /\ notify = <<>>
  /\ pendingPermissions = {}
  /\ alwaysAllowedTools = [c \in Chats |-> {}]
  /\ callbacks = {}
  /\ ret = "none"
  /\ grants = [c \in Chats |-> {}]

AuthNext ==
  \/ \E u \in Users \cup {NoUser}, c \in Chats : onMessage(u, c, NextText(c))
  \/ \E c \in Chats : cancelProcessing(c)
  \/ \E i \in InvIds : TypingOk(i)
  \/ \E i \in InvIds : EngineNext(i)
  \/ \E i \in InvIds : EngineResume(i)
  \/ \E i \in InvIds : EngineEnd(i)
  \/ \E i \in InvIds : RespondDone(i)

AuthSpec == AuthInit /\ [][AuthNext]_vars

\* C26: content of a user who is not allowed (the whitelist is not empty and
\* does not list the user) changes nothing; a step that puts content into a
\* channel or starts an invocation is the message of a user who is allowed (the
\* whitelist is empty or lists the user).
C26_Step ==
  /\ \A u \in Users, c \in Chats :
       (onMessage(u, c, NextText(c)) /\ whitelist # {} /\ u \notin whitelist) =>
          UNCHANGED vars
  /\ (pushed' # pushed /\ Len(inv') >= Len(inv) /\ \A i \in InvIds : inv'[i] = inv[i]) =>
       \E u \in Users, c \in Chats :
         /\ whitelist = {} \/ u \in whitelist
         /\ onMessage(u, c, NextText(c))

C26_AllowedSendersOnly == [][C26_Step]_vars

\* with whitelist {1}, user 1 has started an invocation and injected a message
C26_Witness ==
  /\ whitelist = {1}
  /\ \E i \in InvIds : Len(pushed[i]) = 2

\* C27: a chat has an activeStreams entry exactly when an invocation of the
\* chat has not finished yet, and the entry is the channel of such an
\* invocation; the cleanup of a finished invocation removes no entry that
\* belongs to another invocation.
C27_StateOk ==
  \A c \in Chats :
    /\ activeStreams[c] # 0 <=> \E i \in InvIds : inv[i].chat = c /\ inv[i].pc # "done"
    /\ activeStreams[c] # 0 =>
         /\ inv[activeStreams[c]].chat = c
         /\ inv[activeStreams[c]].pc # "done"

C27_Step ==
  \A i \in InvIds :
    (inv[i].pc # "done" /\ inv'[i].pc = "done" /\ activeStreams[inv[i].chat] # i) =>
       activeStreams' = activeStreams

C27_EntryOfRunningInvocation == [](C27_StateOk) /\ [][C27_Step]_vars

\* C28: after /new or /clear the chat's stored token stays absent until an
\* invocation that started after the clear finishes: a turn that was running
\* when the clear happened writes its token neither to the store nor to the
\* cached session. In FrameSpec every chat starts with a stored token, so a
\* store without a token has been cleared, and invocation 1 runs from the
\* initial state on, so it was running at every clear.
C28_Step ==
  \A c \in Chats :
    (/\ inv[1].chat = c
     /\ Running(1)
     /\ storage[c] \notin Tokens
     /\ ~Running(1)') =>
       /\ storage'[c] \notin Tokens
       /\ sessions'[c] # Token(1)

C28_NoWriteBackAfterClear == [][C28_Step]_vars

\* CallbackSpec: the PermissionManager with whitelist {1} and each chat's
\* turn running; the engine asks for permission, the prompts are delivered, and
\* button presses arrive from user 1 or user 2, in the chat of the request or
\* in the other chat.
CallbackInit ==
  /\ streams = [c \in Chats |-> pushText(newMessageStream, TextNames[1])]
  /\ pushed = [c \in Chats |-> <<createMessage(newMessageStream, TextNames[1])>>]
  /\ consumed = [c \in Chats |-> <<>>]
  /\ thrown = FALSE
  /\ inv = [c \in Chats |-> [chat |-> c, pc |-> "engine", cons |-> "idle",
                             newSessionId |-> Null, failed |-> FALSE]]
  /\ activeStreams = [c \in Chats |-> c]
  /\ permissionMode = "default"
  /\ onPermissionRequest = TRUE
  /\ whitelist = {1}
  /\ claudeArgs = <<>>
  /\ split = NoSplit
  /\ sessions = [c \in Chats |-> NoSession]
  /\ storage = [c \in Chats |-> NoRecord]
  /\ requests = <<>>
  /\ notify = <<>>
  /\ pendingPermissions = {}
  /\ alwaysAllowedTools = [c \in Chats |-> {}]
  /\ callbacks = {}
  /\ ret = "none"
  /\ grants = [c \in Chats |-> {}]

CallbackNext ==
  \/ \E i \in InvIds, t \in Tools : EngineToolUse(i, t) /\ OneCallPerMs'
  \/ \E id \in ReqIds : NotifyDone(id)
  \/ \E u \in Users, c \in Chats, id \in ReqIds, a \in CallbackActions :
       CallbackBeginFrom(u, c, id, a)
  \/ \E cb \in callbacks : CallbackResolve(cb)

CallbackSpec == CallbackInit /\ [][CallbackNext]_vars

\* C29: a button press resolves a pending request of chat c only when it comes
\* from a user who passes isUserAllowed and from chat c; a press from another
\* user or chat leaves the request pending.
C29_Step ==
  \A cb \in callbacks :
    (CallbackResolve(cb) /\ entryOf(cb.id) # 0) =>
       IF isUserAllowed(cb.from) /\ cb.chat = requests[entryOf(cb.id)].chatId
         THEN ret' = "true"
         ELSE /\ pendingPermissions' = pendingPermissions
              /\ requests' = requests

C29_CallbackAuthorized == [][C29_Step]_vars

\* C30: when the engine's event stream fails, queryWithStream writes nothing to
\* the session store and leaves the cached token as it is, also when the
\* session event had been received; neither holds the failed run's token, and
\* the next invocation resumes from the token the store holds.
C30_FailStep ==
  \A i \in InvIds : EngineFail(i) => UNCHANGED <<sessions, storage>>

C30_StateOk ==
  \A i \in InvIds :
    inv[i].failed =>
      /\ storage[inv[i].chat] # Token(i)
      /\ sessions[inv[i].chat] # Token(i)

C30_ResumeStep ==
  \A j \in InvIds :
    TypingOk(j) =>
      streams'[j].sessionId =
        IF storage[inv[j].chat] \in Tokens THEN storage[inv[j].chat] ELSE streams[j].sessionId

C30_FailureSavesNothing ==
  [](C30_StateOk) /\ [][C30_FailStep /\ C30_ResumeStep]_vars

\* the second turn of a chat failed after its session event; the store still
\* holds the token of the first turn
C30_Witness ==
  /\ Len(inv) = 2
  /\ inv[1].chat = inv[2].chat
  /\ inv[2].failed
  /\ streams[2].sessionId = Token(2)
  /\ storage[inv[2].chat] = Token(1)
  /\ sessions[inv[2].chat] = Token(1)

\* C31: in every reachable state of a MessageStream, when the waiting slot is
\* set (an iterator is blocked for the next item) the queue is empty and the
\* stream is not closed.
C31_WaitingMeansEmptyOpen ==
  \A i \in InvIds :
    streams[i].pendingResolve => (streams[i].queue = <<>> /\ ~streams[i].closed)

\* an iterator is blocked again after it has yielded an item
C31_Witness ==
  \E i \in InvIds :
    /\ streams[i].pendingResolve
    /\ inv[i].cons = "waiting"
    /\ Len(consumed[i]) >= 1

\* getSessionStatus(chatId), the /status command: getSession caches the session
getSessionStatus(c) ==
  /\ sessions' = [sessions EXCEPT ![c] = getSession(c)]
  /\ UNCHANGED <<streamVars, inv, activeStreams, confVars, storage, brokerVars>>

\* SessionSpec: the SessionManager's cache and the store under messages,
\* /status, /new and /clear, with turns that report a session id and end.
SessionNext ==
  \/ \E c \in Chats : injectOrStartMessage(c, NextText(c))
  \/ \E c \in Chats : getSessionStatus(c)
  \/ \E c \in Chats : clearSession(c)
  \/ \E c \in Chats : deleteSession(c)
  \/ \E i \in InvIds : TypingOk(i)
  \/ \E i \in InvIds : EngineSessionEvent(i)
  \/ \E i \in InvIds : EngineEnd(i)
  \/ \E i \in InvIds : EngineFail(i)
  \/ \E i \in InvIds : RespondDone(i)
  \/ \E i \in InvIds : ReportError(i)
  \/ \E i \in InvIds : ReportDone(i)

SessionSpec == Init /\ [][SessionNext]_vars

\* C32: for every chat with a cached Session, the cached sessionId is the
\* token the store holds for the chat, null when the store holds none.
C32_CacheMatchesStore ==
  \A c \in Chats :
    sessions[c] # NoSession =>
      sessions[c] = (IF storage[c] \in Tokens THEN storage[c] ELSE Null)

\* one chat was cleared by /new (cached null, stored token blanked) while the
\* other holds a saved token in the cache and in the store
C32_Witness ==
  \E c \in Chats, d \in Chats :
    /\ sessions[c] = Null
    /\ storage[c] = Blank
    /\ sessions[d] \in Tokens
    /\ storage[d] = sessions[d]

\* the words a claudeArgs array is made of, and the arrays up to MaxArgs words
ArgWords == {"--permission-mode", "--model", "default", "bypassPermissions"}
ArgSeqs == UNION {[1..n -> ArgWords] : n \in 0..MaxArgs}

\* OptionsSpec: every configuration of permissionMode and claudeArgs; users
\* send content, queryWithStream builds its options and runs the engine, which
\* asks the hook when one is installed.
OptionsInit ==
  /\ streams = <<>>
  /\ pushed = <<>>
  /\ consumed = <<>>
  /\ thrown = FALSE
  /\ inv = <<>>
  /\ activeStreams = [c \in Chats |-> 0]
  /\ permissionMode \in PermissionModes
  /\ onPermissionRequest = TRUE
  /\ whitelist = {}
  /\ claudeArgs \in ArgSeqs
  /\ split = NoSplit
  /\ sessions = [c \in Chats |-> NoSession]
  /\ storage = [c \in Chats |-> NoRecord]
  /\ requests = <<>>
  /\ notify = <<>>
  /\ pendingPermissions = {}
  /\ alwaysAllowedTools = [c \in Chats |-> {}]
  /\ callbacks = {}
  /\ ret = "none"
  /\ grants = [c \in Chats |-> {}]

OptionsNext ==
  \/ \E c \in Chats : injectOrStartMessage(c, NextText(c))
  \/ \E i \in InvIds : TypingOk(i)
  \/ \E i \in InvIds, t \in Tools : EngineToolUse(i, t) /\ OneCallPerMs'
  \/ \E i \in InvIds : EngineEnd(i)
  \/ \E i \in InvIds : RespondDone(i)

OptionsSpec == OptionsInit /\ [][OptionsNext]_vars

\* C33: for every configuration, an invocation whose engine runs has the
\* canUseTool hook installed exactly when the permissionMode in its engine
\* options is 'default' or 'acceptEdits', also when claudeArgs carries a
\* --permission-mode argument.
C33_HookMatchesOptions ==
  \A i \in InvIds :
    Running(i) => (HookInstalled <=> optionsPermissionMode \in {"default", "acceptEdits"})

\* C34: with no notify callback set, requestPermission for a tool that is not
\* always-allowed settles at once as denied, stores no entry, arms no timer
\* and starts no notify callback.
C34_Step ==
  \A i \in InvIds : \A t \in Tools :
    (/\ ~onPermissionRequest
     /\ t \notin alwaysAllowedTools[inv[i].chat]
     /\ EngineToolUse(i, t)) =>
       LET r == Len(requests) + 1 IN
         /\ Len(requests') = r
         /\ requests'[r].result = "deny"
         /\ ~requests'[r].stored
         /\ requests'[r].timer = "none"
         /\ requests'[r].resolveCalls = 0
         /\ notify'[r] = "none"
         /\ pendingPermissions' = pendingPermissions
         /\ canUseTool(requests'[r]) = "deny"

C34_NoCallbackDenies == [][C34_Step]_vars

\* a PermissionManager without notify callback has denied two requests and
\* holds no entry
C34_Witness ==
  /\ ~onPermissionRequest
  /\ Len(requests) = 2
  /\ \A r \in ReqIds : requests[r].result = "deny" /\ requests[r].timer = "none"
  /\ pendingPermissions = {}

\* C35: in injectOrStartMessage the push into the active channel never throws:
\* whenever the inject branch is taken the channel is open at the push, in
\* every interleaving with /cancel and the cleanup of invocations, and the
\* item is accepted.
C35_Step ==
  \A c \in Chats :
    (ActiveOpen(c) /\ injectOrStartMessage(c, NextText(c))) =>
       LET a == activeStreams[c] IN
         /\ ~streams[a].closed
         /\ ~thrown'
         /\ Len(pushed'[a]) = Len(pushed[a]) + 1

C35_InjectNeverThrows == [](thrown = FALSE) /\ [][C35_Step]_vars

\* a message was injected into the channel of a chat's second invocation
\* while the first, cancelled one (its channel closed) is still running
C35_Witness ==
  /\ Len(inv) = 2
  /\ inv[1].chat = inv[2].chat
  /\ Running(1)
  /\ streams[1].closed
  /\ Len(pushed[2]) = 2
  /\ thrown = FALSE

\* ---------------------------------------------------------------------------
\* splitMessage (bot.ts): the text of a reply cut into messages for Telegram.
\* A text is a sequence of characters; JavaScript indices are 0-based, so the
\* character at index p is s[p + 1].

MaxText == 5     \* characters of the text handed to splitMessage
MaxSplit == 3    \* the largest maxLength handed to splitMessage

TextChars == {"a", " ", "\n"}
Texts == UNION {[1..n -> TextChars] : n \in 0..MaxText}

\* String.prototype.lastIndexOf(ch, from): the greatest index <= from that
\* holds ch, the search starting AT index from; -1 when there is none
lastIndexOf(s, ch, from) ==
  LET last == IF from < Len(s) - 1 THEN from ELSE Len(s) - 1
      hits == {p \in 0..last : s[p + 1] = ch}
  IN IF hits = {} THEN -1 ELSE CHOOSE p \in hits : \A q \in hits : q <= p

\* String.prototype.slice(from, to) for 0 <= from <= to
slice(s, from, to) == SubSeq(s, from + 1, IF to < Len(s) THEN to ELSE Len(s))

\* the break point of one iteration; pos > maxLength * 0.5 is 2 * pos > maxLength
breakPoint(remaining, maxLength) ==
  LET newlinePos == lastIndexOf(remaining, "\n", maxLength)
      spacePos == lastIndexOf(remaining, " ", maxLength)
  IN IF 2 * newlinePos > maxLength THEN newlinePos + 1
     ELSE IF 2 * spacePos > maxLength THEN spacePos + 1
     ELSE maxLength

\* entry of splitMessage: a text that fits is returned whole
splitMessageEntry ==
  /\ split.pc = "entry"
  /\ IF Len(split.text) <= split.maxLength
       THEN split' = [split EXCEPT !.chunks = <<split.text>>, !.pc = "done"]
       ELSE split' = [split EXCEPT !.chunks = <<>>, !.remaining = split.text, !.pc = "loop"]
  /\ UNCHANGED <<streamVars, inv, activeStreams, permissionMode, onPermissionRequest,
                 whitelist, claudeArgs, sessVars, brokerVars>>

\* variant: one iteration that drops the character after the break point
splitMessageLoopSkips ==
  /\ split.pc = "loop"
  /\ IF Len(split.remaining) = 0
       THEN split' = [split EXCEPT !.pc = "done"]
       ELSE IF Len(split.remaining) <= split.maxLength
         THEN split' = [split EXCEPT !.chunks = Append(@, split.remaining), !.pc = "done"]
         ELSE LET bp == breakPoint(split.remaining, split.maxLength)
              IN split' = [split EXCEPT
                   !.chunks = Append(@, slice(split.remaining, 0, bp)),
                   !.remaining = slice(split.remaining, bp + 1, Len(split.remaining))]
  /\ UNCHANGED <<streamVars, inv, activeStreams, permissionMode, onPermissionRequest,
                 whitelist, claudeArgs, sessVars, brokerVars>>

\* one test of the while condition and one iteration of the loop body
splitMessageLoop ==
  /\ split.pc = "loop"
  /\ IF Len(split.remaining) = 0
       THEN split' = [split EXCEPT !.pc = "done"]
       ELSE IF Len(split.remaining) <= split.maxLength
         THEN split' = [split EXCEPT !.chunks = Append(@, split.remaining), !.pc = "done"]
         ELSE LET bp == breakPoint(split.remaining, split.maxLength)
              IN split' = [split EXCEPT
                   !.chunks = Append(@, slice(split.remaining, 0, bp)),
                   !.remaining = slice(split.remaining, bp, Len(split.remaining))]
  /\ UNCHANGED <<streamVars, inv, activeStreams, permissionMode, onPermissionRequest,
                 whitelist, claudeArgs, sessVars, brokerVars>>

\* splitMessage(text, maxLength) has been called and nothing else runs
SplitInit ==
  /\ streams = <<>>
  /\ pushed = <<>>
  /\ consumed = <<>>
  /\ thrown = FALSE
  /\ inv = <<>>
  /\ activeStreams = [c \in Chats |-> 0]
  /\ permissionMode = "bypassPermissions"
  /\ onPermissionRequest = TRUE
  /\ whitelist = {}
  /\ claudeArgs = <<>>
  /\ split \in {[text |-> t, maxLength |-> m, chunks |-> <<>>, remaining |-> t, pc |-> "entry"] :
                  t \in Texts, m \in 1..MaxSplit}
  /\ sessions = [c \in Chats |-> NoSession]
  /\ storage = [c \in Chats |-> NoRecord]
  /\ requests = <<>>
  /\ notify = <<>>
  /\ pendingPermissions = {}
  /\ alwaysAllowedTools = [c \in Chats |-> {}]
  /\ callbacks = {}
  /\ ret = "none"
  /\ grants = [c \in Chats |-> {}]

SplitNext ==
  \/ splitMessageEntry
  \/ splitMessageLoop

SplitSpec == SplitInit /\ [][SplitNext]_vars

\* the function runs on: no call of it is left suspended
FairSplitSpec == SplitSpec /\ WF_vars(SplitNext)

\* C36: every chunk splitMessage has collected, and so every chunk it
\* returns, is at most maxLength characters long.
C36_ChunksFit ==
  \A k \in 1..Len(split.chunks) : Len(split.chunks[k]) <= split.maxLength

\* the chunks joined in order
RECURSIVE Concat(_)
Concat(chunks) == IF chunks = <<>> THEN <<>> ELSE Head(chunks) \o Concat(Tail(chunks))

\* C37: splitMessage returns, and the chunks it returns, joined in order, are
\* the text; none of them is empty when the text is longer than maxLength.
C37_ChunksAreTheText ==
  /\ <>(split.pc = "done")
  /\ [](split.pc = "done" =>
          /\ Concat(split.chunks) = split.text
          /\ Len(split.text) > split.maxLength =>
               \A k \in 1..Len(split.chunks) : split.chunks[k] # <<>>)

\* a text cut at a newline and at the hard limit has been returned
C37_Witness ==
  /\ split.pc = "done"
  /\ split.text = <<"a", "a", "\n", "a", "a">>
  /\ split.maxLength = 3
  /\ split.chunks = <<<<"a", "a", "\n">>, <<"a", "a">>>>

====
